---- MODULE Spec2Model ----
(***************************************************************************)
(* A model of the mortgages package: the amortization schedules of         *)
(* mortgages.py (calc_pmt, calc_market_value, Mortgage, Fixed,             *)
(* Adjustable), the pooled table of mbs.py (Mbs) and the root finder of    *)
(* rootfinding.py (brent).                                                 *)
(*                                                                         *)
(* Python floats are modelled as exact rationals <<n, d>> (d > 0, lowest   *)
(* terms), so every equality below is an equality of exact arithmetic; a   *)
(* float division by zero is the ZeroDivisionError Python raises.          *)
(***************************************************************************)
EXTENDS Integers, Sequences, FiniteSets, TLC

VARIABLES loan, mbs, br, mv

vars == <<loan, mbs, br, mv>>

-----------------------------------------------------------------------------
(* Exact rational arithmetic standing for Python's float arithmetic.       *)

Abs(i) == IF i < 0 THEN -i ELSE i

RECURSIVE GCD(_, _)
GCD(a, b) == IF b = 0 THEN a ELSE GCD(b, a % b)

RNorm(n, d) ==
    LET g == GCD(Abs(n), Abs(d))
        s == IF d < 0 THEN -1 ELSE 1
    IN  <<(s * n) \div g, (s * d) \div g>>

R(i) == <<i, 1>>
Zero == R(0)
One == R(1)

RNeg(x) == <<-x[1], x[2]>>

RAdd(x, y) ==
    LET g == GCD(x[2], y[2])
    IN  RNorm(x[1] * (y[2] \div g) + y[1] * (x[2] \div g), (x[2] \div g) * y[2])

RSub(x, y) == RAdd(x, RNeg(y))

RMul(x, y) ==
    LET g1 == GCD(Abs(x[1]), y[2])
        g2 == GCD(Abs(y[1]), x[2])
    IN  <<(x[1] \div g1) * (y[1] \div g2), (x[2] \div g2) * (y[2] \div g1)>>

\* 1/x, for x # 0
RInv(x) == IF x[1] < 0 THEN <<-x[2], -x[1]>> ELSE <<x[2], x[1]>>

\* x/y, for y # 0
RDiv(x, y) == RMul(x, RInv(y))

RLt(x, y) == RSub(x, y)[1] < 0
RLe(x, y) == RSub(x, y)[1] <= 0
RAbs(x) == <<Abs(x[1]), x[2]>>

RECURSIVE RPowNat(_, _)
RPowNat(x, k) ==
    IF k = 0 THEN One
    ELSE LET h == RPowNat(x, k \div 2)
             sq == RMul(h, h)
         IN  IF k % 2 = 0 THEN sq ELSE RMul(x, sq)

\* x**k for an integer k; x # 0 when k < 0
RPow(x, k) == IF k >= 0 THEN RPowNat(x, k) ELSE RInv(RPowNat(x, -k))

\* x**k raises ZeroDivisionError: 0.0 to a negative power
PowRaises(x, k) == x = Zero /\ k < 0

Last(s) == s[Len(s)]

-----------------------------------------------------------------------------
(* mortgages.py: calc_pmt                                                  *)

\* (1 + r_monthly)**months and (1 + r_monthly)**-months
GrowthFactor(r_monthly, months) == RPow(RAdd(One, r_monthly), months)
DiscountFactor(r_monthly, months) == RPow(RAdd(One, r_monthly), -months)

\* the divisions of lines 31 and 32 that raise ZeroDivisionError
calc_pmt_raises(r_monthly, months, fv) ==
    \/ PowRaises(RAdd(One, r_monthly), months)
    \/ GrowthFactor(r_monthly, months) = Zero
    \/ PowRaises(RAdd(One, r_monthly), -months)
    \/ RSub(One, DiscountFactor(r_monthly, months)) = Zero

calc_pmt(loan_amount, r_monthly, months, fv) ==
    LET pv == RAdd(loan_amount, RDiv(fv, GrowthFactor(r_monthly, months)))
    IN  RDiv(RMul(r_monthly, pv), RSub(One, DiscountFactor(r_monthly, months)))

-----------------------------------------------------------------------------
(* mortgages.py: Mortgage, Fixed, Adjustable                               *)

MonthsPerYear == 12

\* the object before any constructor has run; r_arg keeps the rate argument of
\* Mortgage.__init__ (self.r_monthly is overwritten by Adjustable.update_loan)
\* and calls counts the callers' update_loan calls
NoLoan ==
    [pc |-> "none", kind |-> "none", error |-> "none",
     loan_amount |-> Zero, r_monthly |-> Zero, months |-> 0, fv |-> Zero,
     pmt |-> Zero, vec_pmt |-> <<>>, vec_int |-> <<>>,
     vec_principal |-> <<>>, vec_balance |-> <<>>,
     months_teaser |-> 0, next_r |-> <<>>, m |-> 0,
     amort |-> <<>>, r_arg |-> Zero, calls |-> 0]

\* Mortgage.__init__, lines 136-145: the fields, then the payment; the
\* schedule loop of line 146 follows in create_amortization_schedule_step
Mortgage_init(self, kind, loan_amount, r_annual, years, fv) ==
    LET r_monthly == RDiv(r_annual, R(12))
        months == years * MonthsPerYear
        set == [self EXCEPT !.kind = kind,
                            !.r_arg = r_annual,
                            !.loan_amount = loan_amount,
                            !.r_monthly = r_monthly,
                            !.months = months,
                            !.fv = fv,
                            !.vec_pmt = <<Zero>>,
                            !.vec_int = <<Zero>>,
                            !.vec_principal = <<Zero>>,
                            !.vec_balance = <<loan_amount>>]
    IN  IF calc_pmt_raises(r_monthly, months, fv)
        THEN [set EXCEPT !.pc = "raised", !.error = "ZeroDivisionError"]
        ELSE [set EXCEPT !.pc = "building", !.m = 0,
                         !.pmt = calc_pmt(loan_amount, r_monthly, months, fv)]

\* Mortgage.update_loan
Mortgage_update_loan(self, month_i) ==
    IF Len(self.vec_pmt) <= self.months + 1
    THEN LET interest == RMul(Last(self.vec_balance), self.r_monthly)
             principal == RSub(self.pmt, interest)
         IN  [self EXCEPT !.vec_pmt = Append(@, self.pmt),
                          !.vec_int = Append(@, interest),
                          !.vec_principal = Append(@, principal),
                          !.vec_balance = Append(@, RSub(Last(@), principal))]
    ELSE self

\* self.next_r[i] of a numpy array, i counted from 0: a negative index counts
\* from the end, an index outside -len..len-1 raises IndexError
IndexRaises(arr, i) == i >= Len(arr) \/ i < -Len(arr)
Index(arr, i) == IF i >= 0 THEN arr[i + 1] ELSE arr[Len(arr) + i + 1]

\* Adjustable.update_loan
Adjustable_update_loan(self, month_i) ==
    IF Len(self.vec_pmt) >= self.months_teaser + 1
    THEN IF IndexRaises(self.next_r, month_i - self.months_teaser)
         THEN [self EXCEPT !.error = "IndexError"]
         ELSE LET r == Index(self.next_r, month_i - self.months_teaser)
                  rset == [self EXCEPT !.r_monthly = r]
              IN  IF calc_pmt_raises(r, self.months - month_i, Zero)
                  THEN [rset EXCEPT !.error = "ZeroDivisionError"]
                  ELSE Mortgage_update_loan(
                         [rset EXCEPT !.pmt = calc_pmt(Last(self.vec_balance), r,
                                                       self.months - month_i, Zero)],
                         month_i)
    ELSE Mortgage_update_loan(self, month_i)

\* self.update_loan(month_i), by the class of self
update_loan(self, month_i) ==
    IF self.kind = "Adjustable"
    THEN Adjustable_update_loan(self, month_i)
    ELSE Mortgage_update_loan(self, month_i)

\* the rows of the DataFrame of lines 184-187
Rows(self) ==
    [i \in 1..Len(self.vec_balance) |->
        [balance |-> self.vec_balance[i], payment |-> self.vec_pmt[i],
         interest |-> self.vec_int[i], principal |-> self.vec_principal[i]]]

\* Adjustable.check_r_annual: r_annual is a numpy array
check_r_annual_raises(r_annual, years, months_teaser) ==
    LET new_length == years * MonthsPerYear - months_teaser
    IN  \/ Len(r_annual) = 1 /\ new_length < 0
        \/ Len(r_annual) # 1 /\ Len(r_annual) # new_length

check_r_annual(r_annual, years, months_teaser) ==
    LET new_length == years * MonthsPerYear - months_teaser
    IN  IF Len(r_annual) = 1
        THEN [i \in 1..new_length |-> r_annual[1]]
        ELSE r_annual

-----------------------------------------------------------------------------
(* The callers' arguments.  Rates are annual; 12 and 36 are the monthly    *)
(* rates 1 and 3, whose powers are powers of two, so that the exact        *)
(* arithmetic of a schedule stays within TLC's 32-bit integers.            *)

MaxYears == 2
MaxCalls == 2

Years == -1..MaxYears
LoanAmounts == {R(-1), R(0), R(1), R(3)}
Balloons == {R(0), R(1)}

\* the annual rates offered for a loan of this many years: the rate 36 only
\* up to 12 months
RatesFor(years) ==
    IF Abs(years) * MonthsPerYear <= 12 THEN {R(0), R(12), R(36)} ELSE {R(12)}

\* an array holding x in its first k places and y after them
StepCurve(len, k, x, y) == [i \in 1..len |-> IF i <= k THEN x ELSE y]

\* the r_annual arguments of Adjustable: a scalar (an array of length 1), the
\* arrays of the right length with at most one change of rate, and an array of
\* a wrong length
RateCurves(years, years_teaser) ==
    LET new_length == years * MonthsPerYear - years_teaser * MonthsPerYear
        rates == RatesFor(years) \ {R(0)}
    IN  {<<x>> : x \in RatesFor(years)}
        \cup (IF new_length > 1
              THEN {StepCurve(new_length, k, x, y) :
                        k \in {1, 5, new_length - 1}, x \in rates, y \in rates}
              ELSE {})
        \cup {<<R(12), R(12), R(12)>>}

-----------------------------------------------------------------------------
(* The operations on a loan.                                               *)

\* Fixed(loan_amount, r_annual, years, fv), the arguments drawn from the sets
\* given (rates[years] are the rates offered for that term)
FixedFrom(amounts, terms, balloons, rates) ==
    /\ loan.pc = "none"
    /\ \E loan_amount \in amounts, years \in terms, fv \in balloons :
         \E r_annual \in rates[years] :
            loan' = Mortgage_init(loan, "Fixed", loan_amount, r_annual, years, fv)
    /\ UNCHANGED <<mbs, br, mv>>

\* Adjustable(loan_amount, r_annual, years, r_teaser, years_teaser, fv)
AdjustableFrom(amounts, terms, balloons, rates, curves) ==
    /\ loan.pc = "none"
    /\ \E loan_amount \in amounts, years \in terms, years_teaser \in terms,
          fv \in balloons :
         \E r_annual \in curves[years, years_teaser],
            r_teaser \in rates[years] \ {R(0)} :
            LET months_teaser == years_teaser * MonthsPerYear
            IN  IF check_r_annual_raises(r_annual, years, months_teaser)
                THEN loan' = [loan EXCEPT !.kind = "Adjustable",
                                          !.months_teaser = months_teaser,
                                          !.pc = "raised", !.error = "ValueError"]
                ELSE LET curve == check_r_annual(r_annual, years, months_teaser)
                     IN  loan' = Mortgage_init(
                            [loan EXCEPT !.months_teaser = months_teaser,
                                         !.next_r = [i \in 1..Len(curve) |->
                                                        RDiv(curve[i], R(12))]],
                            "Adjustable", loan_amount, r_teaser, years, fv)
    /\ UNCHANGED <<mbs, br, mv>>

FixedNew ==
    FixedFrom(LoanAmounts, Years, Balloons, [years \in Years |-> RatesFor(years)])

AdjustableNew ==
    AdjustableFrom(LoanAmounts, Years, Balloons,
                   [years \in Years |-> RatesFor(years)],
                   [years \in Years, years_teaser \in Years |->
                       RateCurves(years, years_teaser)])

\* one turn of the loop of create_amortization_schedule
create_amortization_schedule_step ==
    /\ loan.pc = "building"
    /\ loan.m < loan.months
    /\ LET u == update_loan(loan, loan.m)
       IN  loan' = IF u.error # "none"
                   THEN [u EXCEPT !.pc = "raised"]
                   ELSE [u EXCEPT !.m = @ + 1]
    /\ UNCHANGED <<mbs, br, mv>>

\* the loop has ended: the DataFrame is built and __init__ returns
create_amortization_schedule_done ==
    /\ loan.pc = "building"
    /\ loan.m >= loan.months
    /\ loan' = [loan EXCEPT !.pc = "constructed", !.amort = Rows(loan)]
    /\ UNCHANGED <<mbs, br, mv>>

\* a caller's update_loan(month_i) on the constructed loan
UpdateLoan ==
    /\ loan.pc = "constructed"
    /\ loan.calls < MaxCalls
    /\ \E month_i \in {loan.months - 1, loan.months} :
         loan' = [update_loan([loan EXCEPT !.error = "none"], month_i)
                     EXCEPT !.calls = @ + 1]
    /\ UNCHANGED <<mbs, br, mv>>

-----------------------------------------------------------------------------
(* mbs.py: calc_cpr and Mbs.  A column of the DataFrame is a sequence, row *)
(* i at place i + 1; NaN is pandas' missing value.                         *)

NaN == <<0, 0>>

NMul(x, y) == IF x = NaN \/ y = NaN THEN NaN ELSE RMul(x, y)
NAdd(x, y) == IF x = NaN \/ y = NaN THEN NaN ELSE RAdd(x, y)
NSub(x, y) == IF x = NaN \/ y = NaN THEN NaN ELSE RSub(x, y)

ColMul(a, b) == [i \in 1..Len(a) |-> NMul(a[i], b[i])]
ColAdd(a, b) == [i \in 1..Len(a) |-> NAdd(a[i], b[i])]
ColSub(a, b) == [i \in 1..Len(a) |-> NSub(a[i], b[i])]

\* Series.shift(1) and Series.shift(-1)
Shift(col) == [i \in 1..Len(col) |-> IF i = 1 THEN NaN ELSE col[i - 1]]
ShiftBack(col) == [i \in 1..Len(col) |-> IF i = Len(col) THEN NaN ELSE col[i + 1]]

\* np.cumprod of a Series: the running product, a missing value skipped and
\* left missing
RECURSIVE CumProdTo(_, _)
CumProdTo(col, i) ==
    IF i = 0 THEN One
    ELSE IF col[i] = NaN THEN CumProdTo(col, i - 1)
         ELSE RMul(CumProdTo(col, i - 1), col[i])

CumProd(col) ==
    [i \in 1..Len(col) |-> IF col[i] = NaN THEN NaN ELSE CumProdTo(col, i)]

\* col[0] = v
SetFirst(col, v) == [i \in 1..Len(col) |-> IF i = 1 THEN v ELSE col[i]]

\* DataFrame.fillna(0) of one column
FillNa(col) == [i \in 1..Len(col) |-> IF col[i] = NaN THEN Zero ELSE col[i]]

calc_cpr(smm) == [i \in 1..Len(smm) |-> RSub(One, RPow(RSub(One, smm[i]), 12))]

\* Mbs.check_smm: smm is an array (a scalar becomes an array of length 1)
check_smm_raises(smm, months) ==
    \/ Len(smm) = 1 /\ months + 1 < 0
    \/ Len(smm) # 1 /\ Len(smm) # months + 1

check_smm(smm, months) ==
    IF Len(smm) = 1 THEN [i \in 1..(months + 1) |-> smm[1]] ELSE smm

\* lines 125-128: the pool factor column
PoolFactorColumn(smm, pool_factor) ==
    LET start == [i \in 1..Len(smm) |-> pool_factor]
        pool_factor_shift ==
            ColMul(Shift(start), [i \in 1..Len(smm) |-> RSub(One, smm[i])])
    IN  SetFirst(CumProd(pool_factor_shift), pool_factor)

\* lines 140-144 without the outer shift(1): the prepayment cash one period early
PrepayColumnUnshifted(pool_balance, pool_principal, smm) ==
    ColMul(ColSub(pool_balance, ShiftBack(pool_principal)), ShiftBack(smm))

\* lines 140-144: the prepayment column
PrepayColumn(pool_balance, pool_principal, smm) ==
    Shift(ColMul(ColSub(pool_balance, ShiftBack(pool_principal)), ShiftBack(smm)))

\* Mbs.pool_mortgage on the schedule `amortization`
pool_mortgage(amortization, self_smm, self_pool_factor) ==
    LET n == Len(amortization)
        balance == [i \in 1..n |-> amortization[i].balance]
        payment == [i \in 1..n |-> amortization[i].payment]
        interest == [i \in 1..n |-> amortization[i].interest]
        smm == SetFirst(self_smm, Zero)
        pool_factor == PoolFactorColumn(smm, self_pool_factor)
        pool_factor_shift == Shift(pool_factor)
        pool_balance == ColMul(balance, pool_factor)
        pool_pmt == ColMul(payment, pool_factor_shift)
        pool_interest == ColMul(interest, pool_factor_shift)
        pool_principal == ColSub(pool_pmt, pool_interest)
        prepay_dollars == PrepayColumn(pool_balance, pool_principal, smm)
        total_principal == ColAdd(pool_principal, prepay_dollars)
        total_cashflow == ColAdd(pool_interest, total_principal)
    IN  [smm |-> FillNa(smm),
         pool_factor |-> FillNa(pool_factor),
         pool_balance |-> FillNa(pool_balance),
         pool_pmt |-> FillNa(pool_pmt),
         pool_interest |-> FillNa(pool_interest),
         pool_principal |-> FillNa(pool_principal),
         prepay_dollars |-> FillNa(prepay_dollars),
         total_principal |-> FillNa(total_principal),
         total_cashflow |-> FillNa(total_cashflow)]

NoPooled ==
    [smm |-> <<>>, pool_factor |-> <<>>, pool_balance |-> <<>>, pool_pmt |-> <<>>,
     pool_interest |-> <<>>, pool_principal |-> <<>>, prepay_dollars |-> <<>>,
     total_principal |-> <<>>, total_cashflow |-> <<>>]

\* the Mbs object before its constructor has run.  mortgage holds what Mbs
\* reads of its argument: months, and the attribute `amortization` when the
\* object has one
NoMbs ==
    [pc |-> "none", error |-> "none",
     mortgage |-> [months |-> 0, has_amortization |-> FALSE, amortization |-> <<>>],
     smm_arg |-> <<>>, smm |-> <<>>, cpr |-> <<>>, pool_factor |-> Zero,
     pooled |-> NoPooled]

\* the loans pooled: one-year loans at the monthly rate 1 whose balances are
\* whole numbers
PoolLoanAmounts == {R(4095), R(8190)}
PoolRatesFor(years) == {R(12)}
PoolRateCurves(years, years_teaser) == {<<R(12)>>}

PoolBalloons == {R(0), R(4095)}

PoolLoanNew ==
    FixedFrom(PoolLoanAmounts, {1}, PoolBalloons, [years \in {1} |-> PoolRatesFor(years)])

PoolAdjustableNew ==
    AdjustableFrom(PoolLoanAmounts, {0, 1}, PoolBalloons,
                   [years \in {0, 1} |-> PoolRatesFor(years)],
                   [years \in {0, 1}, years_teaser \in {0, 1} |->
                       PoolRateCurves(years, years_teaser)])

\* the smm arguments: a scalar, arrays of length months + 1, arrays of other
\* lengths
SmmRates == {R(0), <<1, 2>>}

SmmArgs(months) ==
    {<<x>> : x \in SmmRates}
    \cup {StepCurve(months + 1, k, x, y) : k \in {1, 6}, x \in SmmRates, y \in SmmRates}
    \cup {StepCurve(len, 1, <<1, 2>>, Zero) : len \in {0, 2, months, months + 2}}

PoolFactors == {R(1), <<1, 2>>, R(2)}

\* Mbs(mortgage, smm, pool_factor), lines 80-83.  The mortgage is the loan as
\* the library built it, which has no attribute `amortization` (Mortgage.__init__
\* names the schedule `amort`), or that loan with `amortization` bound to its
\* schedule by the caller
MbsNew ==
    /\ loan.pc = "constructed"
    /\ mbs.pc = "none"
    /\ \E smm \in SmmArgs(loan.months), pool_factor \in PoolFactors,
          bound \in BOOLEAN :
         LET mortgage == [months |-> loan.months,
                          has_amortization |-> bound,
                          amortization |-> IF bound THEN loan.amort ELSE <<>>]
             new == [mbs EXCEPT !.mortgage = mortgage, !.smm_arg = smm]
         IN  mbs' = IF check_smm_raises(smm, loan.months)
                    THEN [new EXCEPT !.pc = "raised", !.error = "ValueError"]
                    ELSE [new EXCEPT !.pc = "pooling",
                                     !.smm = check_smm(smm, loan.months),
                                     !.cpr = calc_cpr(check_smm(smm, loan.months)),
                                     !.pool_factor = pool_factor]
    /\ UNCHANGED <<loan, br, mv>>

\* line 84: self.pooled = self.pool_mortgage(), where line 116 reads
\* self.mortgage.amortization
MbsPool ==
    /\ mbs.pc = "pooling"
    /\ mbs' = IF ~mbs.mortgage.has_amortization
              THEN [mbs EXCEPT !.pc = "raised", !.error = "AttributeError"]
              ELSE [mbs EXCEPT !.pc = "constructed",
                               !.pooled = pool_mortgage(mbs.mortgage.amortization,
                                                        mbs.smm, mbs.pool_factor)]
    /\ UNCHANGED <<loan, br, mv>>

-----------------------------------------------------------------------------
(* mortgages.py: calc_market_value                                         *)

\* seq[start - 1:]: the slice one element early
SliceFromOneEarly(seq, start) ==
    LET len == Len(seq)
        from == IF start < 1 THEN 1 ELSE (IF start > len THEN len + 1 ELSE start)
    IN  SubSeq(seq, from, len)

\* seq[start:] of Python, start counted from 0: a negative start counts from
\* the end, a start past the end gives the empty sequence
SliceFrom(seq, start) ==
    LET len == Len(seq)
        from == IF start < 0
                THEN (IF len + start < 0 THEN 0 ELSE len + start)
                ELSE (IF start > len THEN len ELSE start)
    IN  SubSeq(seq, from + 1, len)

\* np.cumprod of an array
RECURSIVE ProductTo(_, _)
ProductTo(arr, i) == IF i = 0 THEN One ELSE RMul(ProductTo(arr, i - 1), arr[i])

CumProdArray(arr) == [i \in 1..Len(arr) |-> ProductTo(arr, i)]

\* sum(...) of a sequence
RECURSIVE SumTo(_, _)
SumTo(arr, i) == IF i = 0 THEN Zero ELSE RAdd(SumTo(arr, i - 1), arr[i])

\* Mortgage.sum_vec_pmt, sum_vec_int and sum_vec_principal
sum_vec_pmt(self) == SumTo(self.vec_pmt, Len(self.vec_pmt))
sum_vec_int(self) == SumTo(self.vec_int, Len(self.vec_int))
sum_vec_principal(self) == SumTo(self.vec_principal, Len(self.vec_principal))

\* lines 73-84, for cashflow and market_rates of the same length
calc_market_value(cashflow, market_rates, month_n, month_i) ==
    LET remaining_payments == SliceFrom(cashflow, month_i)
        sliced == SliceFrom(market_rates, month_i)
        remaining_rates == [i \in 1..Len(sliced) |-> RAdd(One, RDiv(sliced[i], R(12)))]
        discount_rates ==
            CumProdArray([i \in 1..Len(sliced) |-> RDiv(One, remaining_rates[i])])
        products == [i \in 1..Len(sliced) |->
                        RMul(remaining_payments[i], discount_rates[i])]
    IN  SumTo(products, Len(products))

NoValue ==
    [pc |-> "none", error |-> "none", cashflow |-> <<>>, market_rates |-> <<>>,
     month_i |-> 0, market_value |-> Zero]

MaxLen == 3

CashValues == {R(1), R(2)}
MarketRates == {R(0), R(12)}

\* the sequences over S of length 1..MaxLen
RECURSIVE SeqsOfLen(_, _)
SeqsOfLen(S, n) ==
    IF n = 0 THEN {<<>>}
    ELSE {Append(q, x) : q \in SeqsOfLen(S, n - 1), x \in S}

SeqsUpTo(S) == UNION {SeqsOfLen(S, n) : n \in 1..MaxLen}

\* calc_market_value(cashflow, market_rates, month_n, month_i)
MarketValue ==
    /\ mv.pc = "none"
    /\ \E cashflow \in SeqsUpTo(CashValues), market_rates \in SeqsUpTo(MarketRates),
          month_i \in 0..MaxLen :
         LET call == [mv EXCEPT !.cashflow = cashflow,
                                !.market_rates = market_rates,
                                !.month_i = month_i]
         IN  mv' = IF Len(cashflow) # Len(market_rates)
                   THEN [call EXCEPT !.pc = "raised", !.error = "ValueError"]
                   ELSE [call EXCEPT !.pc = "returned",
                                     !.market_value =
                                        calc_market_value(cashflow, market_rates,
                                                          Len(cashflow) - 1, month_i)]
    /\ UNCHANGED <<loan, mbs, br>>

-----------------------------------------------------------------------------
(* rootfinding.py: brent                                                   *)

\* the objective functions
Functions == {"square", "line", "knee", "vee", "constant"}

\* f(x)
F(f, x) ==
    CASE f = "square" -> RSub(RMul(x, x), R(2))
      [] f = "line" -> RSub(x, One)
      [] f = "knee" -> IF RLe(x, One) THEN RSub(RMul(R(8), x), One)
                       ELSE RAdd(x, R(6))
      [] f = "vee" -> IF RLe(x, R(2)) THEN RSub(R(2), RMul(R(2), x))
                      ELSE RSub(x, R(4))
      [] f = "constant" -> One

NoBrent ==
    [pc |-> "none", error |-> "none", f |-> "none", a0 |-> Zero, b0 |-> Zero,
     a |-> Zero, b |-> Zero, c |-> Zero, d |-> Zero,
     fa |-> Zero, fb |-> Zero, fc |-> Zero, s |-> Zero, fs |-> Zero,
     mflag |-> 1, loop_counter |-> 0, max_iteration |-> 0, tolerance |-> Zero,
     a_before |-> Zero, b_before |-> Zero, candidate |-> Zero,
     result |-> [root_value |-> Zero, func_value |-> Zero, iteration |-> 0]]

MaxIteration == 3

BracketEnds == {R(0), R(1), R(2), R(3)}
Tolerances == {<<1, 4>>, <<1, 2>>}

\* lines 60-75: the end points, the first swap, c, d, the counter and the flag
BrentStart ==
    /\ br.pc = "none"
    /\ \E f \in Functions, a \in BracketEnds, b \in BracketEnds,
          max_iteration \in 0..MaxIteration, tolerance \in Tolerances :
         LET fa == F(f, a)
             fb == F(f, b)
             swap == RLt(RAbs(fa), RAbs(fb))
             a1 == IF swap THEN b ELSE a
             b1 == IF swap THEN a ELSE b
             fa1 == IF swap THEN fb ELSE fa
             fb1 == IF swap THEN fa ELSE fb
         IN  br' = [br EXCEPT !.pc = "loop", !.f = f, !.a0 = a, !.b0 = b,
                              !.a = a1, !.b = b1, !.fa = fa1, !.fb = fb1,
                              !.c = a1, !.fc = fa1, !.d = Zero,
                              !.loop_counter = 0, !.mflag = 1,
                              !.max_iteration = max_iteration,
                              !.tolerance = tolerance]
    /\ UNCHANGED <<loan, mbs, mv>>

\* lines 82-91 divide by zero: ZeroDivisionError
InterpolationRaises(v) ==
    IF v.fa # v.fc /\ v.fb # v.fc THEN v.fa = v.fb ELSE v.fb = v.fa

\* lines 82-91: the candidate by inverse quadratic interpolation or by the
\* secant method
Interpolate(v) ==
    IF v.fa # v.fc /\ v.fb # v.fc
    THEN LET term_one == RDiv(RMul(v.a, RMul(v.fb, v.fc)),
                              RMul(RSub(v.fa, v.fb), RSub(v.fa, v.fc)))
             term_two == RDiv(RMul(v.b, RMul(v.fa, v.fc)),
                              RMul(RSub(v.fb, v.fa), RSub(v.fb, v.fc)))
             term_three == RDiv(RMul(v.c, RMul(v.fa, v.fb)),
                                RMul(RSub(v.fc, v.fa), RSub(v.fc, v.fb)))
         IN  RAdd(RAdd(term_one, term_two), term_three)
    ELSE RSub(v.b, RDiv(RMul(v.fb, RSub(v.b, v.a)), RSub(v.fb, v.fa)))

Half == <<1, 2>>

\* lines 94-106: the candidate s is rejected
Rejected(v, s) ==
    LET x == RDiv(RAdd(RMul(R(3), v.a), v.b), R(4))
        between_numbers == IF RLe(x, v.b) THEN <<x, v.b>> ELSE <<v.b, x>>
        condition_one == RLt(s, between_numbers[1]) /\ RLt(between_numbers[2], s)
        condition_two == v.mflag = 1
                         /\ RLe(RMul(RAbs(RSub(v.b, v.c)), Half), RAbs(RSub(s, v.b)))
        condition_three == v.mflag = 0
                           /\ RLe(RMul(RAbs(RSub(v.c, v.d)), Half), RAbs(RSub(s, v.b)))
        condition_four == v.mflag = 1
                          /\ RLt(RAbs(RSub(v.b, v.c)), RAbs(v.tolerance))
        condition_five == v.mflag = 0
                          /\ RLt(RAbs(RSub(v.c, v.d)), RAbs(v.tolerance))
    IN  condition_one \/ condition_two \/ condition_three
        \/ condition_four \/ condition_five

\* lines 134-139: the loop returns
Returns(v) ==
    \/ RLe(RAbs(v.fb), v.tolerance)
    \/ RLe(RAbs(v.fs), v.tolerance)
    \/ RLe(RAbs(RSub(v.b, v.a)), v.tolerance)
    \/ v.loop_counter = v.max_iteration

\* OptimalRoots(s, fs, loop_counter)
Returned(v) ==
    [root_value |-> v.s, func_value |-> v.fs, iteration |-> v.loop_counter]

\* lines 108-131: one turn of the loop from the choice of s to the second swap
Turn(v, candidate, reject, s, fs) ==
    LET left == RLt(RMul(v.fa, fs), Zero)
        a1 == IF left THEN v.a ELSE s
        fa1 == IF left THEN v.fa ELSE fs
        b1 == IF left THEN s ELSE v.b
        fb1 == IF left THEN fs ELSE v.fb
        swap == RLt(RAbs(fa1), RAbs(fb1))
    IN  [v EXCEPT !.loop_counter = @ + 1,
                  !.a_before = v.a, !.b_before = v.b, !.candidate = candidate,
                  !.mflag = IF reject THEN 1 ELSE 0,
                  !.s = s, !.fs = fs,
                  !.d = v.c, !.c = v.b, !.fc = v.fb,
                  !.a = IF swap THEN b1 ELSE a1,
                  !.b = IF swap THEN a1 ELSE b1,
                  !.fa = IF swap THEN fb1 ELSE fa1,
                  !.fb = IF swap THEN fa1 ELSE fb1]

\* one turn of the while loop of lines 77-139
BrentIterate ==
    /\ br.pc = "loop"
    /\ br.loop_counter <= br.max_iteration
    /\ IF InterpolationRaises(br)
       THEN br' = [br EXCEPT !.pc = "raised", !.error = "ZeroDivisionError",
                             !.loop_counter = @ + 1]
       ELSE \E candidate \in {Interpolate(br)} :
            \E reject \in {Rejected(br, candidate)} :
            \E s \in {IF reject THEN RMul(Half, RAdd(br.a, br.b)) ELSE candidate} :
            \E fs \in {F(br.f, s)} :
            \E v \in {Turn(br, candidate, reject, s, fs)} :
                br' = IF Returns(v)
                      THEN [v EXCEPT !.pc = "returned", !.result = Returned(v)]
                      ELSE v
    /\ UNCHANGED <<loan, mbs, mv>>

\* the loop condition of line 77 fails: brent ends without a return statement
\* and its caller gets None
BrentExit ==
    /\ br.pc = "loop"
    /\ br.loop_counter > br.max_iteration
    /\ br' = [br EXCEPT !.pc = "returned_none"]
    /\ UNCHANGED <<loan, mbs, mv>>


Init ==
    /\ loan = NoLoan
    /\ mbs = NoMbs
    /\ br = NoBrent
    /\ mv = NoValue

Next ==
    \/ FixedNew
    \/ AdjustableNew
    \/ create_amortization_schedule_step
    \/ create_amortization_schedule_done
    \/ UpdateLoan

Spec == Init /\ [][Next]_vars

NextMbs ==
    \/ PoolLoanNew
    \/ PoolAdjustableNew
    \/ create_amortization_schedule_step
    \/ create_amortization_schedule_done
    \/ MbsNew
    \/ MbsPool

SpecMbs == Init /\ [][NextMbs]_vars

NextValue == MarketValue

SpecValue == Init /\ [][NextValue]_vars

NextBrent ==
    \/ BrentStart
    \/ BrentIterate
    \/ BrentExit

SpecBrent == Init /\ [][NextBrent]_vars

-----------------------------------------------------------------------------
(* Claims about the schedules.                                             *)

RPos(x) == x[1] > 0
RNonNeg(x) == x[1] >= 0

\* row i of the schedule, the origination being row 0
Row(i) == loan.amort[i + 1]

Constructed == loan.pc = "constructed"

\* the monthly rate in force for period i >= 1
RateInForce(i) ==
    IF loan.kind = "Adjustable" /\ i > loan.months_teaser
    THEN loan.next_r[i - loan.months_teaser]
    ELSE RDiv(loan.r_arg, R(12))

\* the recurrence of the schedule at period i >= 1
RowFollows(i) ==
    /\ Row(i).interest = RMul(Row(i - 1).balance, RateInForce(i))
    /\ Row(i).principal = RSub(Row(i).payment, Row(i).interest)
    /\ Row(i).balance = RSub(Row(i - 1).balance, Row(i).principal)

\* C1: a fixed-rate loan with loan_amount > 0, rate > 0, N >= 1 and fv >= 0
\* ends with balance[N] = fv
C1_EndsAtBalloon ==
    (/\ Constructed
     /\ loan.kind = "Fixed"
     /\ RPos(loan.loan_amount) /\ RPos(loan.r_monthly)
     /\ loan.months >= 1 /\ RNonNeg(loan.fv))
    => /\ Len(loan.amort) = loan.months + 1
       /\ Row(loan.months).balance = loan.fv

\* what the code does in the cases of C1: it ends with balance[N] = -fv
C1_EndsAtMinusBalloon ==
    (/\ Constructed
     /\ loan.kind = "Fixed"
     /\ RPos(loan.loan_amount) /\ RPos(loan.r_monthly)
     /\ loan.months >= 1 /\ RNonNeg(loan.fv))
    => /\ Len(loan.amort) = loan.months + 1
       /\ Row(loan.months).balance = RNeg(loan.fv)

\* C2: every constructed schedule has months + 1 rows, starts at loan_amount
\* and follows the recurrence in every period 1..months
C2_ScheduleRecurrence ==
    Constructed
    => /\ Len(loan.amort) = loan.months + 1
       /\ Row(0).balance = loan.loan_amount
       /\ \A i \in 1..loan.months : RowFollows(i)

\* what the code does in the cases of C2 when the term is positive
C2_RecurrenceOfPositiveTerm ==
    (Constructed /\ loan.months >= 1)
    => /\ Len(loan.amort) = loan.months + 1
       /\ Row(0).balance = loan.loan_amount
       /\ \A i \in 1..loan.months : RowFollows(i)

\* C7: no schedule is ever returned for years <= 0 or loan_amount <= 0
\* (the construction fails instead)
C7_NonPositiveInputRejected ==
    Constructed => (loan.months >= 1 /\ RPos(loan.loan_amount))

\* C8: an Adjustable schedule (of a positive loan amount, T teaser months out
\* of N, any fv >= 0) charges the teaser rate in periods 1..T and the j-th
\* supplied rate in period T+j, and keeps the payment between two consecutive
\* periods of equal rate
C8_PaymentHeldBetweenRateChanges ==
    (/\ Constructed
     /\ loan.kind = "Adjustable"
     /\ RPos(loan.loan_amount)
     /\ loan.months >= 1
     /\ loan.months_teaser \in 0..loan.months
     /\ RNonNeg(loan.fv))
    => /\ \A i \in 1..loan.months :
             Row(i).interest = RMul(Row(i - 1).balance, RateInForce(i))
       /\ \A i \in 1..(loan.months - 1) :
             RateInForce(i) = RateInForce(i + 1)
             => Row(i + 1).payment = Row(i).payment

\* what the code does in the cases of C8 when fv = 0
C8_HeldWithoutBalloon ==
    (/\ Constructed
     /\ loan.kind = "Adjustable"
     /\ loan.months >= 1
     /\ loan.months_teaser \in 0..loan.months
     /\ loan.fv = Zero)
    => /\ \A i \in 1..loan.months :
             Row(i).interest = RMul(Row(i - 1).balance, RateInForce(i))
       /\ \A i \in 1..(loan.months - 1) :
             RateInForce(i) = RateInForce(i + 1)
             => Row(i + 1).payment = Row(i).payment

-----------------------------------------------------------------------------
(* Claims about the pooled table.                                          *)

Pooled == mbs.pc = "constructed"

\* column `name` of the pooled table at row i, the origination being row 0
Cell(name, i) == mbs.pooled[name][i + 1]

\* the last row of the pooled table
LastRow == Len(mbs.pooled.smm) - 1

\* C3: for every initial pool factor p0, pool_factor[0] = p0 and
\* pool_factor[i] = pool_factor[i-1] * (1 - smm[i]) in every period i >= 1
C3_PoolFactorRecurrence ==
    Pooled
    => /\ Cell("pool_factor", 0) = mbs.pool_factor
       /\ \A i \in 1..LastRow :
             Cell("pool_factor", i)
               = RMul(Cell("pool_factor", i - 1), RSub(One, Cell("smm", i)))

\* what the code does in the cases of C3 when the initial pool factor is 1
C3_RecurrenceOfUnitFactor ==
    (Pooled /\ mbs.pool_factor = One)
    => /\ Cell("pool_factor", 0) = mbs.pool_factor
       /\ \A i \in 1..LastRow :
             Cell("pool_factor", i)
               = RMul(Cell("pool_factor", i - 1), RSub(One, Cell("smm", i)))

\* the smm argument has length 1 or months + 1
SmmLengthValid == Len(mbs.smm_arg) \in {1, mbs.mortgage.months + 1}

\* C4: over a loan as the library built it, Mbs fails exactly when the smm
\* has a length that is neither 1 nor months + 1, and then with the
\* length-validation error; otherwise it yields a table of months + 1 rows
C4_FailsOnlyOnSmmLength ==
    (mbs.pc \in {"constructed", "raised"} /\ ~mbs.mortgage.has_amortization)
    => IF SmmLengthValid
       THEN mbs.pc = "constructed" /\ LastRow = mbs.mortgage.months
       ELSE mbs.pc = "raised" /\ mbs.error = "ValueError"

\* C9: prepay_dollars[0] = 0 and, in every period i of 1..N,
\* prepay_dollars[i] = (pool_balance[i-1] - pool_principal[i]) * smm[i] with
\* pool_principal[i] = (payment[i] - interest[i]) * pool_factor[i-1] and
\* pool_balance[i-1] = balance[i-1] * pool_factor[i-1]
C9_PrepayAlignment ==
    Pooled
    => /\ LastRow = mbs.mortgage.months
       /\ Cell("prepay_dollars", 0) = Zero
       /\ \A i \in 1..LastRow :
            LET row == mbs.mortgage.amortization[i + 1]
                prev == mbs.mortgage.amortization[i]
            IN  /\ Cell("prepay_dollars", i)
                     = RMul(RSub(Cell("pool_balance", i - 1), Cell("pool_principal", i)),
                            Cell("smm", i))
                /\ Cell("pool_principal", i)
                     = RMul(RSub(row.payment, row.interest), Cell("pool_factor", i - 1))
                /\ Cell("pool_balance", i - 1)
                     = RMul(prev.balance, Cell("pool_factor", i - 1))

\* a pooled table of an initial pool factor other than 1, with prepayment cash
\* in its first and in its last period
C9_Witness ==
    /\ Pooled
    /\ LastRow = 12
    /\ mbs.pool_factor # One
    /\ Cell("prepay_dollars", 1) # Zero
    /\ Cell("prepay_dollars", LastRow) # Zero

-----------------------------------------------------------------------------
(* Claims about the valuation.                                             *)

\* the discount factor of period i seen from period m <= i, periods counted
\* from 0: the product over k = m..i of 1/(1 + market_rates[k]/12)
RECURSIVE DiscountFactorOf(_, _, _)
DiscountFactorOf(rates, m, i) ==
    IF i < m THEN One
    ELSE RMul(DiscountFactorOf(rates, m, i - 1),
              RDiv(One, RAdd(One, RDiv(rates[i + 1], R(12)))))

\* the sum over i = m..last of cashflow[i] times its discount factor
RECURSIVE PresentValueOf(_, _, _, _)
PresentValueOf(cashflow, rates, m, last) ==
    IF last < m THEN Zero
    ELSE RAdd(PresentValueOf(cashflow, rates, m, last - 1),
              RMul(cashflow[last + 1], DiscountFactorOf(rates, m, last)))

\* C10: for cashflow and market_rates of equal length L and m in 1..L-1,
\* calc_market_value returns the sum over i = m..L-1 of cashflow[i] times the
\* product over k = m..i of 1/(1 + market_rates[k]/12)
C10_MarketValueIsDiscountedSum ==
    (/\ mv.pc = "returned"
     /\ mv.month_i \in 1..(Len(mv.cashflow) - 1))
    => mv.market_value
         = PresentValueOf(mv.cashflow, mv.market_rates, mv.month_i,
                          Len(mv.cashflow) - 1)

\* a valuation from period 1 of the periods 0..2 at a nonzero rate, with cash
\* in period 0, before the start period
C10_Witness ==
    /\ mv.pc = "returned"
    /\ Len(mv.cashflow) = 3
    /\ mv.month_i = 1
    /\ mv.market_rates = <<R(12), R(12), R(12)>>
    /\ mv.cashflow = <<R(2), R(1), R(2)>>
    /\ mv.market_value = R(1)

-----------------------------------------------------------------------------
(* The root finder: SpecBrent                                              *)

\* brent was called with a < b and with f(a), f(b) of opposite sign
Bracketed ==
    /\ br.pc # "none"
    /\ RLt(br.a0, br.b0)
    /\ RLt(RMul(F(br.f, br.a0), F(br.f, br.b0)), Zero)

\* C5: whenever brent returns, root_value is the best estimate b, func_value
\* is f(b), and so |func_value| <= |f(a)| at the moment of return
C5_ReturnsBestEstimate ==
    (br.pc = "returned" /\ Bracketed /\ br.max_iteration >= 1) =>
        /\ br.result.root_value = br.b
        /\ br.result.func_value = br.fb
        /\ RLe(RAbs(br.result.func_value), RAbs(br.fa))

\* C6: brent runs at most max_iteration turns of its loop, returns a result
\* whose iteration count is at most max_iteration, and never leaves the loop
\* without returning a result
C6_ReturnsWithinCap ==
    Bracketed =>
        /\ br.loop_counter <= br.max_iteration
        /\ br.pc = "returned" => br.result.iteration <= br.max_iteration
        /\ br.pc \notin {"returned_none", "raised"}

\* brent has left its loop without a result
C6_LeavesWithoutResult == ~(Bracketed /\ br.pc = "returned_none")

\* a turn of the loop has run to its end
TurnDone == br.loop_counter >= 1 /\ br.pc \in {"loop", "returned", "returned_none"}

\* the candidate of the last turn lies strictly between (3a+b)/4 and b, a and
\* b as they were when the turn began
CandidateContained ==
    LET x == RDiv(RAdd(RMul(R(3), br.a_before), br.b_before), R(4))
        lo == IF RLe(x, br.b_before) THEN x ELSE br.b_before
        hi == IF RLe(x, br.b_before) THEN br.b_before ELSE x
    IN  RLt(lo, br.candidate) /\ RLt(br.candidate, hi)

\* C11: in every turn of the loop, a candidate that does not lie strictly
\* between (3a+b)/4 and b is rejected: s is the midpoint (a+b)/2 and the flag
\* says that the last step was a bisection
C11_UncontainedCandidateRejected ==
    (Bracketed /\ TurnDone /\ ~CandidateContained)
    => /\ br.mflag = 1
       /\ br.s = RMul(Half, RAdd(br.a_before, br.b_before))

-----------------------------------------------------------------------------
(* Claims about update_loan on a constructed loan: Spec                    *)

\* the sum of one column of the schedule as the constructor returned it
ScheduleSum(name) ==
    SumTo([i \in 1..Len(loan.amort) |-> loan.amort[i][name]], Len(loan.amort))

\* a constructed loan of a positive amount and a positive term
WellFormedLoan == Constructed /\ loan.months >= 1 /\ RPos(loan.loan_amount)

\* C12: whatever update_loan calls follow the construction, the payment,
\* interest, principal and balance vectors have at most months + 1 entries
\* and sum_vec_pmt, sum_vec_int and sum_vec_principal keep the values they
\* had when the constructor returned
C12_HistoryUnchangedAfterConstruction ==
    WellFormedLoan
    => /\ Len(loan.vec_pmt) <= loan.months + 1
       /\ Len(loan.vec_int) <= loan.months + 1
       /\ Len(loan.vec_principal) <= loan.months + 1
       /\ Len(loan.vec_balance) <= loan.months + 1
       /\ sum_vec_pmt(loan) = ScheduleSum("payment")
       /\ sum_vec_int(loan) = ScheduleSum("interest")
       /\ sum_vec_principal(loan) = ScheduleSum("principal")

\* what the code does in the cases of C12: the history is as claimed when the
\* constructor returns, and at most one payment more is ever recorded
C12_AtMostOneExtraPayment ==
    WellFormedLoan
    => /\ Len(loan.vec_pmt) <= loan.months + 2
       /\ loan.calls = 0 =>
            /\ Len(loan.vec_pmt) = loan.months + 1
            /\ sum_vec_pmt(loan) = ScheduleSum("payment")
            /\ sum_vec_int(loan) = ScheduleSum("interest")
            /\ sum_vec_principal(loan) = ScheduleSum("principal")

====
